---- MODULE Spec2Model ----
(***************************************************************************)
(* Verification model of the operational scripts of the repository:        *)
(*   - github_upload.py      branch-sync uploader (GitHub Contents API)    *)
(*   - main/Phoenix Platform/code.py   ownership gate (startup_check.py)   *)
(*   - server.py             key-value memory HTTP service                 *)
(*   - metrics_exporter.py   Prometheus exporter                           *)
(* Each script is a state machine of its own (SpecWalk, SpecUpload,        *)
(* SpecOath, SpecMemory, SpecMetrics) over its own variables.              *)
(***************************************************************************)
EXTENDS Integers, Sequences, FiniteSets, TLC

(***************************************************************************)
(* Strings are sequences of one-character strings, so that the substring,  *)
(* prefix, suffix and split tests of the code are computed, not assumed.   *)
(***************************************************************************)
Range(s) == { s[i] : i \in 1..Len(s) }

StartsWith(s, p) == Len(p) <= Len(s) /\ SubSeq(s, 1, Len(p)) = p

EndsWith(s, p) == Len(p) <= Len(s) /\ SubSeq(s, Len(s) - Len(p) + 1, Len(s)) = p

Contains(s, p) == \E i \in 1..(Len(s) - Len(p) + 1) : SubSeq(s, i, i + Len(p) - 1) = p

RECURSIVE Split(_, _)
Split(s, sep) ==
    IF \A i \in 1..Len(s) : s[i] # sep
    THEN <<s>>
    ELSE LET i == CHOOSE k \in 1..Len(s) : s[k] = sep /\ \A j \in 1..(k-1) : s[j] # sep
         IN  <<SubSeq(s, 1, i - 1)>> \o Split(SubSeq(s, i + 1, Len(s)), sep)

RECURSIVE Join(_, _)
Join(parts, sep) ==
    IF Len(parts) = 0 THEN <<>>
    ELSE IF Len(parts) = 1 THEN parts[1]
    ELSE parts[1] \o <<sep>> \o Join(Tail(parts), sep)

Replace(s, old, new) == [i \in 1..Len(s) |-> IF s[i] = old THEN new ELSE s[i]]

RECURSIVE Perms(_)
Perms(S) ==
    IF S = {} THEN {<<>>}
    ELSE UNION { { <<x>> \o p : p \in Perms(S \ {x}) } : x \in S }

(***************************************************************************)
(* Names of the file-system entries used as inputs.                        *)
(***************************************************************************)
SEP == "/"
DotGit == <<".", "g", "i", "t">>
DotGithub == <<".", "g", "i", "t", "h", "u", "b">>
DotGitignore == <<".", "g", "i", "t", "i", "g", "n", "o", "r", "e">>
AGit == <<"a", ".", "g", "i", "t">>
SrcDir == <<"s", "r", "c">>
ZipExt == <<".", "z", "i", "p">>
OutZip == <<"o", "u", "t", ".", "z", "i", "p">>
OutZipBak == <<"o", "u", "t", ".", "z", "i", "p", ".", "b", "a", "k">>
ATxt == <<"a", ".", "t", "x", "t">>
BTxt == <<"b", ".", "t", "x", "t">>
CTxt == <<"c", ".", "t", "x", "t">>
HeadFile == <<"H", "E", "A", "D">>
CiYml == <<"c", "i", ".", "y", "m", "l">>
DotSlashDotGit == <<".", "/", ".", "g", "i", "t">>
SlashDotGit == <<"/", ".", "g", "i", "t">>

\* SOURCE_DIR values (github_upload.py:23): the default "." and a named directory
SourceDirs == { <<".">>, <<"w">> }

(***************************************************************************)
(* A tree is the set of its regular files; a file is the sequence of the   *)
(* names on its path below SOURCE_DIR, the last being the file name.       *)
(***************************************************************************)
DirOf(p) == SubSeq(p, 1, Len(p) - 1)

\* the directories os.walk visits: every proper prefix of a file's path
WalkDirs(tree) == UNION { { SubSeq(p, 1, k) : k \in 0..(Len(p) - 1) } : p \in tree }

\* the root string os.walk yields for directory d: os.path.join(top, name, ...)
RootStr(sourceDir, d) == Join(<<sourceDir>> \o d, SEP)

\* github_upload.py:104-107, the two tests that skip a directory
SkipRoot(root) ==
    \/ DotGit \in Range(Split(root, SEP))
    \/ StartsWith(root, DotSlashDotGit)
    \/ Contains(root, SlashDotGit)

\* github_upload.py:110
SkipFile(fn) == EndsWith(fn, ZipExt)

\* github_upload.py:113-115, the (full, rel) pair appended for a file
FileRecord(sourceDir, p) ==
    [full |-> Join(<<sourceDir>> \o p, SEP),
     rel  |-> Replace(Join(p, SEP), "\\", "/")]

\* the records of the files listed directly in directory d
RecordsIn(sourceDir, tree, d) ==
    IF SkipRoot(RootStr(sourceDir, d)) THEN {}
    ELSE { FileRecord(sourceDir, p) : p \in { q \in tree : DirOf(q) = d /\ ~SkipFile(q[Len(q)]) } }

SubDirs(tree, d) == { e \in WalkDirs(tree) : Len(e) = Len(d) + 1 /\ SubSeq(e, 1, Len(d)) = d }

(***************************************************************************)
(* os.walk is top-down: a directory's files (in listing order, which the   *)
(* file system chooses) come before those of its sub-directories (visited  *)
(* in listing order as well).  WalkFrom is the set of lists the loop of    *)
(* main can build from directory d on.                                     *)
(***************************************************************************)
RECURSIVE WalkFrom(_, _, _)
RECURSIVE WalkSubs(_, _, _)
WalkFrom(sourceDir, tree, d) ==
    { h \o b : h \in Perms(RecordsIn(sourceDir, tree, d)),
               b \in WalkSubs(sourceDir, tree, SubDirs(tree, d)) }

WalkSubs(sourceDir, tree, S) ==
    IF S = {} THEN {<<>>}
    ELSE UNION { { w \o r : w \in WalkFrom(sourceDir, tree, s),
                            r \in WalkSubs(sourceDir, tree, S \ {s}) } : s \in S }

\* github_upload.py:101-115
discoverFiles(sourceDir, tree) == WalkFrom(sourceDir, tree, <<>>)

(***************************************************************************)
(* Bounds                                                                  *)
(***************************************************************************)
MaxTreeFiles == 3     \* files in a tree handed to the directory walk
MaxFiles == 3         \* files in the tree of an uploader run
MaxRuns == 2          \* consecutive runs of the uploader against one remote

VARIABLES
    \* --- directory walk on its own (github_upload.py:101-115)
    wSourceDir, wTree, wFiles, wDone,
    \* --- uploader (github_upload.py)
    GITHUB_TOKEN,     \* TRUE iff the credential is set in the environment
    tree,             \* the local files below SOURCE_DIR
    baseExists,       \* remote: BASE_BRANCH exists
    baseFiles,        \* remote: blob sha of each path on BASE_BRANCH (0 = absent)
    branchExists,     \* remote: BRANCH exists
    remoteFiles,      \* remote: blob sha of each path on BRANCH (0 = absent)
    pc,               \* position of the script
    files,            \* main's list of (full, rel) pairs
    walked,           \* TRUE once the loop of main has built files
    idx,              \* index of the pair the upload loop is at
    sha,              \* upload_file's local sha (0 = None)
    exit_status,      \* -1 while running, else the process exit status
    calls,            \* the remote calls of this run, in order, with their answers
    ebLog,            \* one record per ensure_branch invocation, over all runs
    stored,           \* paths a write of an earlier or this run has stored
    runs

walkVars == <<wSourceDir, wTree, wFiles, wDone>>
uploadVars == <<GITHUB_TOKEN, tree, baseExists, baseFiles, branchExists, remoteFiles, pc,
                files, walked, idx, sha, exit_status, calls, ebLog, stored, runs>>

(***************************************************************************)
(* The directory walk as a function of the tree                            *)
(***************************************************************************)
WalkPool ==
    { <<ATxt>>, <<OutZip>>, <<OutZipBak>>, <<DotGitignore>>,
      <<DotGit, HeadFile>>, <<SrcDir, DotGit, HeadFile>>, <<SrcDir, ATxt>>,
      <<SrcDir, OutZip>>, <<AGit, ATxt>>, <<DotGithub, CiYml>> }

WalkIdle == wSourceDir = <<".">> /\ wTree = {} /\ wFiles = <<>> /\ wDone = FALSE

WalkInit ==
    /\ wSourceDir \in SourceDirs
    /\ wTree \in { t \in SUBSET WalkPool : Cardinality(t) <= MaxTreeFiles }
    /\ wFiles = <<>>
    /\ wDone = FALSE

\* github_upload.py:101-115
Discover ==
    /\ ~wDone
    /\ wFiles' \in discoverFiles(wSourceDir, wTree)
    /\ wDone' = TRUE
    /\ UNCHANGED <<wSourceDir, wTree>>

(***************************************************************************)
(* The uploader: remote store, HTTP helpers, ensure_branch, upload_file,   *)
(* main                                                                    *)
(***************************************************************************)
UploadPool == { <<ATxt>>, <<BTxt>>, <<SrcDir, CTxt>>, <<DotGit, HeadFile>> }

UploadSourceDir == <<".">>

RelPaths == { FileRecord(UploadSourceDir, p).rel : p \in UploadPool }

NoFiles == [r \in RelPaths |-> 0]

\* blob sha of a file's local content, and of a different content of the same path
LocalSha == 2
OtherSha == 1

RelA == FileRecord(UploadSourceDir, <<ATxt>>).rel

\* what the remote answers to a lookup of something that exists or does not:
\* the found answer, not-found, another HTTP error status, or no response
LookupResponses(exists) == (IF exists THEN {"ok"} ELSE {"404"}) \cup {"err", "noresp"}

\* POST /git/refs creates the branch only if it is absent
PostResponses(exists) == (IF exists THEN {} ELSE {"ok"}) \cup {"err", "noresp"}

\* PUT /contents stores the file only if the token sent is the current one
\* (none for a path that is absent)
PutResponses(current, token) == (IF current = token THEN {"ok"} ELSE {}) \cup {"err", "noresp"}

\* github_upload.py:34-40: the parsed JSON, the HTTPError returned as a value,
\* or any other exception (URLError) raised to the caller
api_get(resp) ==
    CASE resp = "ok" -> "json"
      [] resp \in {"404", "err"} -> "HTTPError"
      [] OTHER -> "raise"

\* github_upload.py:42-52: api_post and api_put raise on every failure
api_send(resp) ==
    CASE resp = "ok" -> "json"
      [] resp = "err" -> "raise HTTPError"
      [] OTHER -> "raise URLError"

isException(r) == r = "HTTPError"

Call(op, path, token, resp, ret) == [op |-> op, path |-> path, sha |-> token, res |-> resp, ret |-> ret]

Exit(status) == pc' = "exited" /\ exit_status' = status

UploadIdle ==
    /\ GITHUB_TOKEN = FALSE /\ tree = {} /\ baseExists = FALSE /\ baseFiles = NoFiles
    /\ branchExists = FALSE /\ remoteFiles = NoFiles /\ pc = "off" /\ files = <<>>
    /\ walked = FALSE /\ idx = 0 /\ sha = 0 /\ exit_status = -1 /\ calls = <<>>
    /\ ebLog = <<>> /\ stored = {} /\ runs = 0

UploadInit ==
    /\ GITHUB_TOKEN \in BOOLEAN
    /\ tree \in { t \in SUBSET UploadPool : Cardinality(t) <= MaxFiles }
    /\ baseExists \in BOOLEAN
    /\ baseFiles \in (IF baseExists THEN { NoFiles, [NoFiles EXCEPT ![RelA] = OtherSha] } ELSE { NoFiles })
    /\ branchExists \in BOOLEAN
    /\ remoteFiles \in (IF branchExists
                        THEN { NoFiles, [NoFiles EXCEPT ![RelA] = OtherSha],
                               [NoFiles EXCEPT ![RelA] = LocalSha] }
                        ELSE { NoFiles })
    /\ pc = "start" /\ files = <<>> /\ walked = FALSE /\ idx = 0 /\ sha = 0
    /\ exit_status = -1 /\ calls = <<>> /\ ebLog = <<>> /\ stored = {} /\ runs = 1

\* github_upload.py:15-18
CheckCredential ==
    /\ pc = "start"
    /\ IF ~GITHUB_TOKEN THEN Exit(2) ELSE pc' = "base_lookup" /\ UNCHANGED exit_status
    /\ UNCHANGED <<GITHUB_TOKEN, tree, baseExists, baseFiles, branchExists, remoteFiles,
                   files, walked, idx, sha, calls, ebLog, stored, runs>>

EbRecord(result, baseRes, targetRes, postRes, existed) ==
    [result |-> result, baseRes |-> baseRes, targetRes |-> targetRes, postRes |-> postRes,
     existed |-> existed, run |-> runs,
     posts |-> Len(SelectSeq(calls', LAMBDA c : c.op = "POST_REF"))]

\* github_upload.py:56-61
BaseLookup ==
    /\ pc = "base_lookup"
    /\ \E resp \in LookupResponses(baseExists) :
         LET r == api_get(resp) IN
         /\ calls' = Append(calls, Call("GET_REF_BASE", <<>>, 0, resp, 0))
         /\ IF r = "raise"
            THEN /\ Exit(1)
                 /\ ebLog' = Append(ebLog, EbRecord("Crash", resp, "none", "none", branchExists))
            ELSE IF isException(r)
            THEN /\ Exit(3)
                 /\ ebLog' = Append(ebLog, EbRecord("BaseBranchUnresolved", resp, "none", "none", branchExists))
            ELSE /\ pc' = "target_lookup"
                 /\ UNCHANGED <<exit_status, ebLog>>
    /\ UNCHANGED <<GITHUB_TOKEN, tree, baseExists, baseFiles, branchExists, remoteFiles,
                   files, walked, idx, sha, stored, runs>>

\* github_upload.py:64, the decision to create the branch
NeedsCreate_Always(existing) == TRUE

NeedsCreate(existing) == isException(existing)

\* github_upload.py:63-66
TargetLookup ==
    /\ pc = "target_lookup"
    /\ \E resp \in LookupResponses(branchExists) :
         LET existing == api_get(resp) IN
         /\ calls' = Append(calls, Call("GET_REF_TARGET", <<>>, 0, resp, 0))
         /\ IF existing = "raise"
            THEN /\ Exit(1)
                 /\ ebLog' = Append(ebLog, EbRecord("Crash", "ok", resp, "none", branchExists))
            ELSE IF NeedsCreate(existing)
            THEN /\ pc' = "create"
                 /\ UNCHANGED <<exit_status, ebLog>>
            ELSE /\ pc' = "walk"
                 /\ ebLog' = Append(ebLog, EbRecord("AlreadyExists", "ok", resp, "none", branchExists))
                 /\ UNCHANGED exit_status
    /\ UNCHANGED <<GITHUB_TOKEN, tree, baseExists, baseFiles, branchExists, remoteFiles,
                   files, walked, idx, sha, stored, runs>>

\* github_upload.py:67-73
CreateBranch ==
    /\ pc = "create"
    /\ \E resp \in PostResponses(branchExists) :
         LET r == api_send(resp)
             targetRes == calls[Len(calls)].res IN
         /\ calls' = Append(calls, Call("POST_REF", <<>>, 0, resp, 0))
         /\ IF r = "json"
            THEN /\ branchExists' = TRUE
                 /\ remoteFiles' = baseFiles
                 /\ pc' = "walk"
                 /\ ebLog' = Append(ebLog, EbRecord("Created", "ok", targetRes, resp, branchExists))
                 /\ UNCHANGED exit_status
            ELSE /\ Exit(4)
                 /\ ebLog' = Append(ebLog, EbRecord("BranchCreationFailed", "ok", targetRes, resp, branchExists))
                 /\ UNCHANGED <<branchExists, remoteFiles>>
    /\ UNCHANGED <<GITHUB_TOKEN, tree, baseExists, baseFiles, files, walked, idx, sha, stored, runs>>

\* github_upload.py:101-117, the walk and the entry into the upload loop
Walk ==
    /\ pc = "walk"
    /\ files' \in discoverFiles(UploadSourceDir, tree)
    /\ walked' = TRUE
    /\ IF Len(files') = 0
       THEN Exit(0) /\ idx' = 0
       ELSE pc' = "check" /\ idx' = 1 /\ UNCHANGED exit_status
    /\ UNCHANGED <<GITHUB_TOKEN, tree, baseExists, baseFiles, branchExists, remoteFiles,
                   sha, calls, ebLog, stored, runs>>

\* github_upload.py:80-86, the token kept from the existence check
TokenOf_Never(existing, ret) == 0

TokenOf(existing, ret) == IF existing = "json" THEN ret ELSE 0

\* github_upload.py:80-86, where the script goes after the existence check:
\* every exception is caught, so always on to the write
AfterCheck_Uncaught(existing) == IF existing = "raise" THEN "exited" ELSE "put"

AfterCheck(existing) == "put"

\* github_upload.py:76-86; open() of a file that can no longer be read raises
\* OSError, which nothing catches
CheckExisting ==
    /\ pc = "check"
    /\ LET rel == files[idx].rel
           current == IF branchExists THEN remoteFiles[rel] ELSE 0 IN
       \/ /\ Exit(1)
          /\ UNCHANGED <<calls, sha>>
       \/ \E resp \in LookupResponses(current # 0) :
            LET existing == api_get(resp)
                ret == IF resp = "ok" THEN current ELSE 0 IN
            /\ calls' = Append(calls, Call("GET_CONTENTS", rel, 0, resp, ret))
            /\ sha' = TokenOf(existing, ret)
            /\ IF AfterCheck(existing) = "put"
               THEN pc' = "put" /\ UNCHANGED exit_status
               ELSE Exit(1)
    /\ UNCHANGED <<GITHUB_TOKEN, tree, baseExists, baseFiles, branchExists, remoteFiles,
                   files, walked, idx, ebLog, stored, runs>>

\* github_upload.py:91-97, the exit status after the write (-1: go on)
AfterPut_GoOn(r) == -1

AfterPut(r) ==
    CASE r = "json" -> -1
      [] r = "raise HTTPError" -> 5
      [] OTHER -> 1

\* github_upload.py:117, the next pair of the loop
NextIndex_Skip(i) == i + 2

NextIndex(i) == i + 1

\* github_upload.py:87-97 and the loop of main at 117-118
PutFile ==
    /\ pc = "put"
    /\ LET rel == files[idx].rel
           current == IF branchExists THEN remoteFiles[rel] ELSE 0 IN
       \E resp \in PutResponses(current, sha) :
         LET r == api_send(resp)
             status == AfterPut(r) IN
         /\ calls' = Append(calls, Call("PUT_CONTENTS", rel, sha, resp, 0))
         /\ IF r = "json"
            THEN remoteFiles' = [remoteFiles EXCEPT ![rel] = LocalSha] /\ stored' = stored \cup {rel}
            ELSE UNCHANGED <<remoteFiles, stored>>
         /\ IF status # -1
            THEN Exit(status) /\ UNCHANGED idx
            ELSE IF NextIndex(idx) > Len(files)
            THEN Exit(0) /\ UNCHANGED idx
            ELSE pc' = "check" /\ idx' = NextIndex(idx) /\ UNCHANGED exit_status
    /\ sha' = 0
    /\ UNCHANGED <<GITHUB_TOKEN, tree, baseExists, baseFiles, branchExists,
                   files, walked, ebLog, runs>>

\* the script is started again, against the remote the last run left
Rerun ==
    /\ pc = "exited"
    /\ runs < MaxRuns
    /\ pc' = "start" /\ files' = <<>> /\ walked' = FALSE /\ idx' = 0 /\ sha' = 0
    /\ exit_status' = -1 /\ calls' = <<>> /\ runs' = runs + 1
    /\ UNCHANGED <<GITHUB_TOKEN, tree, baseExists, baseFiles, branchExists, remoteFiles,
                   ebLog, stored>>

(***************************************************************************)
(* main/Phoenix Platform/code.py (startup_check.py): verify_oath_binding   *)
(***************************************************************************)
VARIABLES
    manifestFile,     \* what is at OWNERSHIP_MANIFEST_PATH
    opc,              \* position in verify_oath_binding
    manifest,         \* the loaded manifest
    warned,           \* TRUE once the deviation warning is printed
    oResult,          \* "running", "returned", "exit" (sys.exit) or "crash" (uncaught exception)
    oStatus           \* process exit status, -1 while running

oathVars == <<manifestFile, opc, manifest, warned, oResult, oStatus>>

REQUIRED_OWNER == "Adam Henry Nagle"

NoManifest == [kind |-> "none"]

\* JSON values of the spiritual_binding key: no key, an object (with or
\* without an oath), or a value that is not an object
SpiritualValues ==
    { [kind |-> "absent"], [kind |-> "string"], [kind |-> "null"] }
    \cup { [kind |-> "object", oath |-> o] : o \in {"immutable", "mutable", "absent"} }

\* JSON documents: an object with the three keys the code reads, or a
\* document that is not an object
JsonDocuments ==
    { [kind |-> "array"] }
    \cup { [kind |-> "object", owner |-> o, legal_binding |-> l, spiritual_binding |-> s] :
             o \in {"absent", "null", REQUIRED_OWNER, "Someone Else"},
             l \in {"absent", "true", "false"},
             s \in SpiritualValues }

ManifestFiles ==
    { [state |-> "missing"], [state |-> "unreadable"], [state |-> "badjson"] }
    \cup { [state |-> "json", doc |-> d] : d \in JsonDocuments }

OathIdle ==
    /\ manifestFile = [state |-> "missing"] /\ opc = "off" /\ manifest = NoManifest
    /\ warned = FALSE /\ oResult = "running" /\ oStatus = -1

OathInit ==
    /\ manifestFile \in ManifestFiles
    /\ opc = "exists" /\ manifest = NoManifest /\ warned = FALSE
    /\ oResult = "running" /\ oStatus = -1

\* sys.exit with a message, or an uncaught exception: exit status 1
Terminate(how) == opc' = "done" /\ oResult' = how /\ oStatus' = 1

\* startup_check.py:21-25
CheckManifestExists ==
    /\ opc = "exists"
    /\ IF manifestFile.state = "missing"
       THEN Terminate("exit")
       ELSE opc' = "load" /\ UNCHANGED <<oResult, oStatus>>
    /\ UNCHANGED <<manifestFile, manifest, warned>>

\* startup_check.py:27-37
LoadManifest ==
    /\ opc = "load"
    /\ IF manifestFile.state = "json"
       THEN manifest' = manifestFile.doc /\ opc' = "owner" /\ UNCHANGED <<oResult, oStatus>>
       ELSE Terminate("exit") /\ UNCHANGED manifest
    /\ UNCHANGED <<manifestFile, warned>>

\* startup_check.py:43, the owner test (None for a missing key or a JSON null)
OwnerMatches(m) == m.owner = REQUIRED_OWNER

\* startup_check.py:40-47; .get on a document that is not an object raises AttributeError
CheckOwner ==
    /\ opc = "owner"
    /\ IF manifest.kind # "object"
       THEN Terminate("crash")
       ELSE IF ~OwnerMatches(manifest)
       THEN Terminate("exit")
       ELSE opc' = "bindings" /\ UNCHANGED <<oResult, oStatus>>
    /\ UNCHANGED <<manifestFile, manifest, warned>>

\* startup_check.py:51, left operand: not manifest.get("legal_binding", False)
LegalMissing(m) == m.legal_binding # "true"

\* startup_check.py:51, right operand: "raise" when spiritual_binding is not an object
OathDeviates(m) ==
    CASE m.spiritual_binding.kind = "absent" -> "yes"
      [] m.spiritual_binding.kind = "object" ->
            IF m.spiritual_binding.oath = "immutable" THEN "no" ELSE "yes"
      [] OTHER -> "raise"

\* startup_check.py:48-55; the right operand is evaluated only if the left is false
CheckBindings ==
    /\ opc = "bindings"
    /\ IF LegalMissing(manifest)
       THEN /\ warned' = TRUE
            /\ opc' = "done" /\ oResult' = "returned" /\ oStatus' = 0
       ELSE IF OathDeviates(manifest) = "raise"
       THEN Terminate("crash") /\ UNCHANGED warned
       ELSE /\ warned' = (OathDeviates(manifest) = "yes")
            /\ opc' = "done" /\ oResult' = "returned" /\ oStatus' = 0
    /\ UNCHANGED <<manifestFile, manifest>>

(***************************************************************************)
(* server.py: the memory service.  FastAPI runs the def handlers in a      *)
(* thread pool, so the steps of handlers of different requests interleave. *)
(***************************************************************************)
MaxRequests == 3      \* requests handled in one behaviour

VARIABLES
    request,          \* request[t]: what handler t is asked to do
    mpc,              \* mpc[t]: position of handler t
    memory,           \* memory[t]: the handler's local dict
    response,         \* response[t]
    fileExists,       \* MEMORY_PATH exists
    fileJson,         \* TRUE iff the file holds a complete JSON document
    fileData,         \* the dict in the file
    lastDone,         \* lastDone[k]: value of the last insert of k that completed
    overlap           \* overlap[k]: two inserts of k were in progress together

memVars == <<request, mpc, memory, response, fileExists, fileJson, fileData, lastDone, overlap>>

Keys == {"k1", "k2"}
Values == {"v1", "v2"}
Handlers == 1..MaxRequests

NoValue == "<none>"
EmptyDict == [k \in Keys |-> NoValue]

Requests ==
    { [op |-> "POST", key |-> k, value |-> v] : k \in Keys, v \in Values }
    \cup { [op |-> "GET", key |-> k, value |-> NoValue] : k \in Keys }

NoResponse == [status |-> 0, value |-> NoValue, afterInserts |-> FALSE]

MemIdle ==
    /\ request = [t \in Handlers |-> [op |-> "GET", key |-> "k1", value |-> NoValue]]
    /\ mpc = [t \in Handlers |-> "off"]
    /\ memory = [t \in Handlers |-> EmptyDict]
    /\ response = [t \in Handlers |-> NoResponse]
    /\ fileExists = FALSE /\ fileJson = FALSE /\ fileData = EmptyDict
    /\ lastDone = EmptyDict /\ overlap = [k \in Keys |-> FALSE]

MemInit ==
    /\ request \in [Handlers -> Requests]
    /\ mpc = [t \in Handlers |-> "idle"]
    /\ memory = [t \in Handlers |-> EmptyDict]
    /\ response = [t \in Handlers |-> NoResponse]
    /\ fileExists \in BOOLEAN
    /\ fileJson = fileExists
    /\ fileData = EmptyDict
    /\ lastDone = EmptyDict /\ overlap = [k \in Keys |-> FALSE]

InsertInProgress(t) == request[t].op = "POST" /\ mpc[t] \in {"read", "assign", "dump", "respond"}

InsertsDone == \A t \in Handlers : request[t].op = "POST" => mpc[t] = "done"

\* server.py:27-28
InsertStart(t) ==
    /\ request[t].op = "POST" /\ mpc[t] = "idle"
    /\ memory' = [memory EXCEPT ![t] = EmptyDict]
    /\ mpc' = [mpc EXCEPT ![t] = IF fileExists THEN "read" ELSE "assign"]
    /\ overlap' = [overlap EXCEPT ![request[t].key] =
                      @ \/ \E u \in Handlers \ {t} :
                              InsertInProgress(u) /\ request[u].key = request[t].key]
    /\ UNCHANGED <<request, response, fileExists, fileJson, fileData, lastDone>>

\* server.py:29-30; json.load of an incomplete file raises, the request fails with 500
InsertRead(t) ==
    /\ request[t].op = "POST" /\ mpc[t] = "read"
    /\ IF fileJson
       THEN /\ memory' = [memory EXCEPT ![t] = fileData]
            /\ mpc' = [mpc EXCEPT ![t] = "assign"]
            /\ UNCHANGED response
       ELSE /\ response' = [response EXCEPT ![t] = [NoResponse EXCEPT !.status = 500]]
            /\ mpc' = [mpc EXCEPT ![t] = "done"]
            /\ UNCHANGED memory
    /\ UNCHANGED <<request, fileExists, fileJson, fileData, lastDone, overlap>>

\* server.py:31-32; open(..., "w") creates or truncates the file
InsertAssign(t) ==
    /\ request[t].op = "POST" /\ mpc[t] = "assign"
    /\ memory' = [memory EXCEPT ![t][request[t].key] = request[t].value]
    /\ fileExists' = TRUE /\ fileJson' = FALSE /\ fileData' = EmptyDict
    /\ mpc' = [mpc EXCEPT ![t] = "dump"]
    /\ UNCHANGED <<request, response, lastDone, overlap>>

\* server.py:33, what json.dump leaves in the file
Dumped(t) == memory[t]

\* server.py:33
InsertDump(t) ==
    /\ request[t].op = "POST" /\ mpc[t] = "dump"
    /\ fileData' = Dumped(t) /\ fileJson' = TRUE
    /\ mpc' = [mpc EXCEPT ![t] = "respond"]
    /\ UNCHANGED <<request, memory, response, fileExists, lastDone, overlap>>

\* server.py:34
InsertRespond(t) ==
    /\ request[t].op = "POST" /\ mpc[t] = "respond"
    /\ response' = [response EXCEPT ![t] = [NoResponse EXCEPT !.status = 200]]
    /\ lastDone' = [lastDone EXCEPT ![request[t].key] = request[t].value]
    /\ mpc' = [mpc EXCEPT ![t] = "done"]
    /\ UNCHANGED <<request, memory, fileExists, fileJson, fileData, overlap>>

\* server.py:19-20
GetStart(t) ==
    /\ request[t].op = "GET" /\ mpc[t] = "idle"
    /\ IF fileExists
       THEN /\ mpc' = [mpc EXCEPT ![t] = "read"]
            /\ response' = [response EXCEPT ![t].afterInserts = InsertsDone]
       ELSE /\ mpc' = [mpc EXCEPT ![t] = "done"]
            /\ response' = [response EXCEPT ![t] =
                   [status |-> 404, value |-> NoValue, afterInserts |-> InsertsDone]]
    /\ UNCHANGED <<request, memory, fileExists, fileJson, fileData, lastDone, overlap>>

\* server.py:21-23
GetRead(t) ==
    /\ request[t].op = "GET" /\ mpc[t] = "read"
    /\ IF fileJson
       THEN response' = [response EXCEPT ![t].status = 200,
                                         ![t].value = IF fileData[request[t].key] # NoValue
                                                      THEN fileData[request[t].key]
                                                      ELSE "Not Found"]
       ELSE response' = [response EXCEPT ![t].status = 500]
    /\ mpc' = [mpc EXCEPT ![t] = "done"]
    /\ UNCHANGED <<request, memory, fileExists, fileJson, fileData, lastDone, overlap>>

(***************************************************************************)
(* metrics_exporter.py: update_metrics and the /metrics handler            *)
(***************************************************************************)
MaxResults == 2       \* entries of "Results" in a Trivy report
MaxVulns == 1         \* entries of "Vulnerabilities" in one result

VARIABLES
    report,           \* the Trivy report at TRIVY_PATH
    g_trivy_vulns,    \* value of the gauge's child per severity label (0: no child)
    g_latest_release, \* value of the unlabelled gauge
    g_open_issues,    \* value of the unlabelled gauge
    scrape,           \* the last answer of /metrics
    fresh             \* TRUE iff the report is as it was at the last scrape

metVars == <<report, g_trivy_vulns, g_latest_release, g_open_issues, scrape, fresh>>

Labels == {"HIGH", "LOW", "UNKNOWN"}

\* the "Severity" of a vulnerability entry; "absent" is an entry without the key
Severities == {"HIGH", "LOW", "absent"}

SeqsUpTo(S, n) == UNION { [1..k -> S] : k \in 0..n }

\* a result is its "Vulnerabilities": a list, or null / no key
VulnSets == { <<"null">> } \cup { <<"list", l>> : l \in SeqsUpTo(Severities, MaxVulns) }

\* a report that cannot be read or parsed, or the list of its results
Reports == { [readable |-> FALSE, results |-> <<>>] }
           \cup { [readable |-> TRUE, results |-> r] : r \in SeqsUpTo(VulnSets, MaxResults) }

\* metrics_exporter.py:33
SeverityOf(v) == IF v = "absent" THEN "UNKNOWN" ELSE v

\* metrics_exporter.py:32, "vulnset.get('Vulnerabilities', []) or []"
VulnsOf(vulnset) == IF vulnset[1] = "null" THEN <<>> ELSE vulnset[2]

RECURSIVE CountIn(_, _)
CountIn(vs, s) ==
    IF Len(vs) = 0 THEN 0
    ELSE (IF SeverityOf(Head(vs)) = s THEN 1 ELSE 0) + CountIn(Tail(vs), s)

\* metrics_exporter.py:30-34, counts.get(s, 0) after the two loops
RECURSIVE Counts(_, _)
Counts(results, s) ==
    IF Len(results) = 0 THEN 0
    ELSE CountIn(VulnsOf(Head(results)), s) + Counts(Tail(results), s)

\* metrics_exporter.py:26-38, the children of the gauge after update_metrics:
\* only the severities in counts are set, and nothing is if the report cannot be read
UpdatedTrivy(g, rep) ==
    IF ~rep.readable THEN g
    ELSE [s \in Labels |-> IF Counts(rep.results, s) > 0 THEN Counts(rep.results, s) ELSE g[s]]

NoScrape == [status |-> 0, release |-> 0, issues |-> 0, trivy |-> [s \in Labels |-> 0]]

MetIdle ==
    /\ report = [readable |-> FALSE, results |-> <<>>]
    /\ g_trivy_vulns = [s \in Labels |-> 0] /\ g_latest_release = 0 /\ g_open_issues = 0
    /\ scrape = NoScrape /\ fresh = FALSE

MetInit ==
    /\ report \in Reports
    /\ g_trivy_vulns = [s \in Labels |-> 0] /\ g_latest_release = 0 /\ g_open_issues = 0
    /\ scrape = NoScrape /\ fresh = FALSE

\* a new scan result is written to TRIVY_PATH, or the file is removed
ReportChanges ==
    /\ \E r \in Reports : r # report /\ report' = r
    /\ fresh' = FALSE
    /\ UNCHANGED <<g_trivy_vulns, g_latest_release, g_open_issues, scrape>>

ReleaseTimestamp == 1700000000

\* metrics_exporter.py:16-43: get_repo or get_issues raising makes the request
\* fail with 500; a failing get_latest_release sets the gauge to 0
Scrape ==
    \E gh \in {"ok", "no_release", "repo_fails", "issues_fail"}, n \in 0..1 :
        /\ fresh' = TRUE
        /\ UNCHANGED report
        /\ IF gh = "repo_fails"
           THEN /\ scrape' = [NoScrape EXCEPT !.status = 500]
                /\ UNCHANGED <<g_trivy_vulns, g_latest_release, g_open_issues>>
           ELSE /\ g_latest_release' = (IF gh = "no_release" THEN 0 ELSE ReleaseTimestamp)
                /\ IF gh = "issues_fail"
                   THEN /\ scrape' = [NoScrape EXCEPT !.status = 500]
                        /\ UNCHANGED <<g_trivy_vulns, g_open_issues>>
                   ELSE /\ g_open_issues' = n
                        /\ g_trivy_vulns' = UpdatedTrivy(g_trivy_vulns, report)
                        /\ scrape' = [status |-> 200, release |-> g_latest_release',
                                      issues |-> n, trivy |-> g_trivy_vulns']

(***************************************************************************)
(* Specifications: one per script, the variables of the others idle        *)
(***************************************************************************)
vars == <<walkVars, uploadVars, oathVars, memVars, metVars>>

InitWalk == WalkInit /\ UploadIdle /\ OathIdle /\ MemIdle /\ MetIdle
NextWalk == Discover /\ UNCHANGED <<uploadVars, oathVars, memVars, metVars>>
SpecWalk == InitWalk /\ [][NextWalk]_vars

notUpload == <<walkVars, oathVars, memVars, metVars>>
InitUpload == UploadInit /\ WalkIdle /\ OathIdle /\ MemIdle /\ MetIdle
NextUpload ==
    \/ CheckCredential /\ UNCHANGED notUpload
    \/ BaseLookup /\ UNCHANGED notUpload
    \/ TargetLookup /\ UNCHANGED notUpload
    \/ CreateBranch /\ UNCHANGED notUpload
    \/ Walk /\ UNCHANGED notUpload
    \/ CheckExisting /\ UNCHANGED notUpload
    \/ PutFile /\ UNCHANGED notUpload
    \/ Rerun /\ UNCHANGED notUpload
SpecUpload == InitUpload /\ [][NextUpload]_vars

notOath == <<walkVars, uploadVars, memVars, metVars>>
InitOath == OathInit /\ WalkIdle /\ UploadIdle /\ MemIdle /\ MetIdle
NextOath ==
    \/ CheckManifestExists /\ UNCHANGED notOath
    \/ LoadManifest /\ UNCHANGED notOath
    \/ CheckOwner /\ UNCHANGED notOath
    \/ CheckBindings /\ UNCHANGED notOath
SpecOath == InitOath /\ [][NextOath]_vars

notMem == <<walkVars, uploadVars, oathVars, metVars>>
InitMemory == MemInit /\ WalkIdle /\ UploadIdle /\ OathIdle /\ MetIdle
NextMemory ==
    \/ \E t \in Handlers : InsertStart(t) /\ UNCHANGED notMem
    \/ \E t \in Handlers : InsertRead(t) /\ UNCHANGED notMem
    \/ \E t \in Handlers : InsertAssign(t) /\ UNCHANGED notMem
    \/ \E t \in Handlers : InsertDump(t) /\ UNCHANGED notMem
    \/ \E t \in Handlers : InsertRespond(t) /\ UNCHANGED notMem
    \/ \E t \in Handlers : GetStart(t) /\ UNCHANGED notMem
    \/ \E t \in Handlers : GetRead(t) /\ UNCHANGED notMem
SpecMemory == InitMemory /\ [][NextMemory]_vars

notMet == <<walkVars, uploadVars, oathVars, memVars>>
InitMetrics == MetInit /\ WalkIdle /\ UploadIdle /\ OathIdle /\ MemIdle
NextMetrics ==
    \/ ReportChanges /\ UNCHANGED notMet
    \/ Scrape /\ UNCHANGED notMet
SpecMetrics == InitMetrics /\ [][NextMetrics]_vars

(***************************************************************************)
(* Properties of the uploader                                              *)
(***************************************************************************)
PutCalls == SelectSeq(calls, LAMBDA c : c.op = "PUT_CONTENTS")

PostCalls == SelectSeq(calls, LAMBDA c : c.op = "POST_REF")

RelB == FileRecord(UploadSourceDir, <<BTxt>>).rel

\* C1: fail-fast.  The k-th write is for the k-th discovered file; a write
\* answered with a non-2xx response is the last remote call of the run and the
\* run has ended with a non-zero status; with 3 discovered files and the 2nd
\* write rejected there are exactly 2 writes and no call for the 3rd file.
FailFast ==
    /\ \A k \in 1..Len(PutCalls) : k <= Len(files) /\ PutCalls[k].path = files[k].rel
    /\ \A j \in 1..Len(calls) :
         (calls[j].op = "PUT_CONTENTS" /\ calls[j].res = "err")
            => (j = Len(calls) /\ pc = "exited" /\ exit_status > 0)
    /\ (Len(files) = 3 /\ Len(PutCalls) >= 2 /\ PutCalls[2].res = "err")
            => (Len(PutCalls) = 2 /\ \A j \in 1..Len(calls) : calls[j].path # files[3].rel)

FailFastWitness ==
    /\ Len(files) = 3 /\ Len(PutCalls) = 2
    /\ PutCalls[1].res = "ok" /\ PutCalls[2].res = "err"
    /\ pc = "exited" /\ exit_status = 5

\* C2: create vs update.  Every write comes right after the existence check of
\* the same path; it carries a token iff that check found the path, and then
\* the token is the one the check returned; a path absent from the branch is
\* written with no token.
CreateVsUpdate ==
    \A j \in 1..Len(calls) :
        calls[j].op = "PUT_CONTENTS" =>
            /\ j > 1
            /\ calls[j-1].op = "GET_CONTENTS"
            /\ calls[j-1].path = calls[j].path
            /\ (calls[j].sha # 0) <=> (calls[j-1].res = "ok")
            /\ calls[j-1].res = "ok" => (calls[j].sha = calls[j-1].ret /\ calls[j-1].ret # 0)
            /\ calls[j-1].res = "404" => calls[j].sha = 0

\* b.txt is on neither branch at first: the second run updates what the first created
CreateVsUpdateWitness ==
    /\ runs = 2
    /\ RelB \in stored
    /\ \E j \in 1..Len(calls) :
         calls[j].op = "PUT_CONTENTS" /\ calls[j].path = RelB /\ calls[j].sha = LocalSha
            /\ calls[j].res = "ok"

\* C3: branch idempotence.  An ensure_branch whose lookups are answered as the
\* remote is issues exactly one branch-creation write if the branch was absent
\* and none if it existed; right after an invocation that created the branch,
\* the next one finds it, reports AlreadyExists and writes nothing.
Faithful(e) == e.baseRes = "ok" /\ e.targetRes \in {"ok", "404"}

LastCall == calls[Len(calls)]

FullSuccess ==
    /\ Len(ebLog) > 0
    /\ ebLog[Len(ebLog)].run = runs
    /\ ebLog[Len(ebLog)].result \in {"Created", "AlreadyExists"}
    /\ walked
    /\ Len(PutCalls) = Len(files)
    /\ \A k \in 1..Len(PutCalls) : PutCalls[k].res = "ok"

ExitBehaviour ==
    pc = "exited" =>
        \/ exit_status = 2 /\ ~GITHUB_TOKEN
        \/ exit_status = 3 /\ GITHUB_TOKEN /\ LastCall.op = "GET_REF_BASE" /\ LastCall.res # "ok"
        \/ exit_status = 4 /\ GITHUB_TOKEN /\ LastCall.op = "POST_REF" /\ LastCall.res # "ok"
        \/ exit_status = 5 /\ GITHUB_TOKEN /\ LastCall.op = "PUT_CONTENTS" /\ LastCall.res # "ok"
        \/ exit_status = 0 /\ GITHUB_TOKEN /\ FullSuccess

\* C6: call ordering.  The calls of a run are, in this order: the base-branch
\* lookup, the target-branch lookup, at most one branch creation, and then for
\* each discovered file in discovery order one existence check followed by one
\* write of the same path; a per-file call happens only once ensure_branch has
\* finished and the file list is built; a run that ends with status 0 has made
\* exactly one check and one write for every discovered file.
EbCalls == IF Len(calls) >= 3 /\ calls[3].op = "POST_REF" THEN 3 ELSE 2

EbFinished == Len(ebLog) > 0 /\ ebLog[Len(ebLog)].run = runs

CallOrdering ==
    /\ Len(calls) >= 1 => calls[1].op = "GET_REF_BASE"
    /\ Len(calls) >= 2 => calls[2].op = "GET_REF_TARGET"
    /\ Len(PostCalls) <= 1
    /\ \A j \in 1..Len(calls) :
         j > EbCalls =>
            LET m == j - EbCalls
                f == (m + 1) \div 2 IN
            /\ EbFinished /\ walked
            /\ f <= Len(files)
            /\ calls[j].path = files[f].rel
            /\ calls[j].op = (IF m % 2 = 1 THEN "GET_CONTENTS" ELSE "PUT_CONTENTS")
    /\ (pc = "exited" /\ exit_status = 0) => Len(calls) = EbCalls + 2 * Len(files)

CallOrderingWitness ==
    /\ pc = "exited" /\ exit_status = 0
    /\ Len(files) = 3
    /\ EbCalls = 3
    /\ \A j \in 1..Len(calls) : calls[j].res \in {"ok", "404"}

\* C7: an existence check that fails in any way (not found, another HTTP
\* error, no response) does not stop the run: the write of that file is the
\* next call and carries no token.
CheckErrorIsAbsence ==
    \A j \in 1..Len(calls) :
        (calls[j].op = "GET_CONTENTS" /\ calls[j].res # "ok") =>
            IF j = Len(calls)
            THEN pc = "put" /\ sha = 0 /\ exit_status = -1
            ELSE /\ calls[j+1].op = "PUT_CONTENTS"
                 /\ calls[j+1].path = calls[j].path
                 /\ calls[j+1].sha = 0

CheckErrorIsAbsenceWitness ==
    \E j \in 1..(Len(calls) - 1), k \in 1..(Len(calls) - 1) :
        /\ calls[j].op = "GET_CONTENTS" /\ calls[j].res = "noresp"
        /\ calls[j+1].op = "PUT_CONTENTS" /\ calls[j+1].sha = 0
        /\ calls[k].op = "GET_CONTENTS" /\ calls[k].res = "err"
        /\ calls[k+1].op = "PUT_CONTENTS" /\ calls[k+1].sha = 0

(***************************************************************************)
(* Property of the directory walk                                          *)
(***************************************************************************)
\* C5: discoverFiles returns a record for a file iff no directory on its path
\* is named .git and its name does not end in .zip.
ShouldDiscover(p) == DotGit \notin Range(DirOf(p)) /\ ~EndsWith(p[Len(p)], ZipExt)

DiscoverExclusion ==
    wDone => \A p \in wTree :
        (FileRecord(wSourceDir, p) \in Range(wFiles)) <=> ShouldDiscover(p)

(***************************************************************************)
(* Property of the ownership gate                                          *)
(***************************************************************************)
ManifestOwnedByRequiredOwner ==
    /\ manifestFile.state = "json"
    /\ manifestFile.doc.kind = "object"
    /\ manifestFile.doc.owner = REQUIRED_OWNER

BindingsPass ==
    /\ manifestFile.doc.legal_binding = "true"
    /\ manifestFile.doc.spiritual_binding.kind = "object"
    /\ manifestFile.doc.spiritual_binding.oath = "immutable"

\* C8: ownership gate.  verify_oath_binding returns only for a manifest that
\* exists, parses and names the required owner; for every other manifest the
\* process ends with a failure status; a manifest with the required owner whose
\* legal_binding or spiritual_binding check does not pass is not blocked.
OwnershipGate ==
    opc = "done" =>
        /\ oResult = "returned" => ManifestOwnedByRequiredOwner
        /\ ~ManifestOwnedByRequiredOwner => (oResult \in {"exit", "crash"} /\ oStatus > 0)
        /\ (ManifestOwnedByRequiredOwner /\ ~BindingsPass) => (oResult = "returned" /\ oStatus = 0)

(***************************************************************************)
(* Property of the memory service                                          *)
(***************************************************************************)
Posted(k) == { request[t].value : t \in { u \in Handlers : request[u].op = "POST" /\ request[u].key = k } }

Inserted(k) == \E t \in Handlers :
    request[t].op = "POST" /\ request[t].key = k /\ mpc[t] = "done" /\ response[t].status = 200

\* C9: once every POST /memory has completed, every key whose insert was
\* answered "inserted" is in the file with a value posted for it (the last one
\* completed, if the inserts of the key did not overlap), and a GET handled
\* after that returns such a value.
KeepsEveryInsert ==
    InsertsDone =>
        \A k \in Keys : Inserted(k) =>
            /\ fileExists /\ fileJson
            /\ fileData[k] \in Posted(k)
            /\ ~overlap[k] => fileData[k] = lastDone[k]
            /\ \A t \in Handlers :
                 (request[t].op = "GET" /\ request[t].key = k /\ mpc[t] = "done"
                     /\ response[t].afterInserts)
                    => (response[t].status = 200 /\ response[t].value \in Posted(k))

(***************************************************************************)
(* Property of the metrics exporter                                        *)
(***************************************************************************)
\* C10: right after a /metrics scrape that answered, every severity label the
\* answer exposes for webssh_trivy_vulnerabilities_total has the number of
\* vulnerabilities of that severity in the report as it is at that scrape; a
\* severity no longer in the report, or of a report that cannot be read, is not
\* exposed with an earlier count.
ReportsCurrentReport ==
    (fresh /\ scrape.status = 200) =>
        \A s \in Labels : scrape.trivy[s] # 0 =>
            (report.readable /\ scrape.trivy[s] = Counts(report.results, s))

====
